---- MODULE Spec2Model ----
(***************************************************************************)
(* Members API (backend/app.py) over the data-access layer (backend/db.py) *)
(* and the relational store it talks to.                                   *)
(*                                                                         *)
(* Every HTTP request is a process: the endpoint validates the request,    *)
(* calls one data-access function, and turns its outcome into a response.  *)
(* A data-access function opens its own connection and transaction and     *)
(* executes its SQL statements one at a time; statements of concurrent     *)
(* requests interleave.  The store is a READ COMMITTED relational engine   *)
(* with row locks and an offerings.member_id -> members.id foreign key     *)
(* without cascade.                                                        *)
(*                                                                         *)
(* Amounts are fixed-point numbers in thousandths (2505 is 2.505).         *)
(* Python's None and SQL NULL are the empty tuple; a nullable value v is   *)
(* the tuple <<v>>.                                                        *)
(***************************************************************************)
EXTENDS Integers, Sequences, FiniteSets, TLC

VARIABLES
    members,     \* committed rows of table members
    offerings,   \* committed rows of table offerings
    nextMid,     \* the store's generator of members.id
    nextOid,     \* the store's generator of offerings.id
    pc,          \* per request: where its handler / data-access function is
    req,         \* per request: endpoint and validated arguments
    conn,        \* per request: the connection opened by its data-access call
    txn,         \* per request: uncommitted writes and row locks of its transaction
    loc,         \* per request: local variables of the data-access function
    exc,         \* per request: exception in flight out of the data-access call
    ret,         \* per request: value returned by the data-access call
    resp,        \* per request: what the endpoint handler produced
    served       \* requests received so far

vars ==
    <<members, offerings, nextMid, nextOid, pc, req, conn, txn, loc, exc, ret, resp, served>>

store == <<members, offerings, nextMid, nextOid>>

\* ------------------------------------------------------------------ bounds

\* Workers serving requests concurrently, in the order a new request is given to
\* the first free one.
Procs == {"r1", "r2"}

Before(p) == IF p = "r1" THEN {} ELSE {"r1"}

\* Requests received in a run.
MaxRequests == 3

\* ------------------------------------------------------------------ values

None == <<>>

Some(v) == <<v>>

IsNone(x) == x = None

Val(x) == x[1]

NoExc == "none"

NoTxn == [insM |-> {}, delM |-> {}, insO |-> {}, delO |-> {}, share |-> {}]

NoLoc == [level_id |-> None, status_id |-> None, deleted |-> None]

NoReq == [ep |-> "none"]

NoResp == [kind |-> "none", status |-> 0, detail |-> ""]

\* Rows of the lookup tables (id, code); the system never writes them.
membership_levels == {[id |-> 1, code |-> "participant"]}

interview_statuses == {[id |-> 1, code |-> "undecided"]}

LookupTable(table) ==
    IF table = "membership_levels" THEN membership_levels ELSE interview_statuses

\* Column default of offerings.currency.
DefaultCurrency == "TWD"

\* The store's clock, read for the donated_at default: it advances with every insert.
Now == nextMid + nextOid

MemberIdsOf(ms) == {m.id : m \in ms}

\* ------------------------------------------------------------------ request inputs

\* Names are sequences of characters.
NameMaxLen == 100

LongName == [i \in 1..(NameMaxLen + 1) |-> "a"]

\* Bodies of POST /members: (name, membership_level, interview_status).  A lookup
\* value is None, <<"int", id>> or <<"str", code>>.
MemberBodies ==
    { [name |-> <<"A", "l">>, membership_level |-> <<"str", "participant">>,
                              interview_status |-> None],
      [name |-> <<"b", "o">>, membership_level |-> <<"int", 1>>,
                              interview_status |-> <<"str", "bogus">>],
      [name |-> <<"A", "l">>, membership_level |-> <<"str", "bogus">>,
                              interview_status |-> None],
      [name |-> <<"A", "l">>, membership_level |-> <<"int", 9>>,
                              interview_status |-> None],
      [name |-> <<>>, membership_level |-> None, interview_status |-> None],
      [name |-> LongName, membership_level |-> None, interview_status |-> None] }

\* Bodies of POST /offerings without the member id: (amount, note, donated_at).
OfferingBodies ==
    { [amount |-> 0 - 1000, note |-> None, donated_at |-> None],
      [amount |-> 0, note |-> None, donated_at |-> None],
      [amount |-> 2505, note |-> Some("x"), donated_at |-> Some(1)] }

\* Member ids a request can name: 0, which is never handed out, and the ids handed
\* out so far whose creation has been answered (an id is not guessable before).
MemberIdArgs ==
    {m \in 0..(nextMid - 1) : \A q \in Procs : \A row \in txn[q].insM : row.id # m}

\* Search terms of GET /members/search.
SearchArgs == {<<"a">>, <<"z">>, <<>>}

\* Names of GET /members/by-name/{name}.
NameArgs == {<<"A", "l">>, <<"z">>}

\* ------------------------------------------------------------------ helpers of db.py

_to_float(x) == IF IsNone(x) THEN None ELSE x

_member_row_to_dict(row) == [id |-> row.id, name |-> row.name]

_offering_row_to_dict(row) ==
    [id |-> row.id, amount |-> _to_float(row.amount), currency |-> row.currency,
     donated_at |-> row.donated_at, note |-> row.note]

\* Variant of _resolve_lookup_id that forgets the `if not row` check: an unknown
\* code resolves to no id.
_resolve_lookup_id_unchecked(table, value) ==
    IF IsNone(value) THEN [exc |-> NoExc, id |-> None]
    ELSE IF value[1] = "int" THEN [exc |-> NoExc, id |-> Some(value[2])]
    ELSE LET rows == {r \in LookupTable(table) : r.code = value[2]}
         IN  IF rows = {} THEN [exc |-> NoExc, id |-> None]
             ELSE [exc |-> NoExc, id |-> Some((CHOOSE r \in rows : TRUE).id)]

\* The outcome of _resolve_lookup_id: the id, or the ValueError it raises.
_resolve_lookup_id(table, value) ==
    IF IsNone(value) THEN [exc |-> NoExc, id |-> None]
    ELSE IF value[1] = "int" THEN [exc |-> NoExc, id |-> Some(value[2])]
    ELSE LET rows == {r \in LookupTable(table) : r.code = value[2]}
         IN  IF rows = {} THEN [exc |-> "ValueError", id |-> None]
             ELSE [exc |-> NoExc, id |-> Some((CHOOSE r \in rows : TRUE).id)]

\* Whether resolving the value runs a SELECT on the lookup table.
LookupQueries(value) == ~IsNone(value) /\ value[1] = "str"

\* ------------------------------------------------------------------ SQL semantics

Lower(c) == IF c = "A" THEN "a" ELSE IF c = "B" THEN "b" ELSE c

LowerName(n) == [i \in 1..Len(n) |-> Lower(n[i])]

\* name ILIKE %term%
ILike(name, term) ==
    \E i \in 1..(Len(name) - Len(term) + 1) :
        SubSeq(LowerName(name), i, i + Len(term) - 1) = LowerName(term)

CharRank(c) ==
    CASE c = "A" -> 1 [] c = "B" -> 2 [] c = "a" -> 3 [] c = "b" -> 4
      [] c = "l" -> 5 [] c = "o" -> 6 [] OTHER -> 7

RECURSIVE NameLeq(_, _)
NameLeq(a, b) ==
    IF a = <<>> THEN TRUE
    ELSE IF b = <<>> THEN FALSE
    ELSE IF CharRank(Head(a)) # CharRank(Head(b)) THEN CharRank(Head(a)) < CharRank(Head(b))
    ELSE NameLeq(Tail(a), Tail(b))

\* Every listing of the rows of S, each row once.
Listings(S) ==
    {f \in [1..Cardinality(S) -> S] : \A i, j \in 1..Cardinality(S) : f[i] = f[j] => i = j}

ByCreatedAt(a, b) == a.id <= b.id

ByName(a, b) == NameLeq(a.name, b.name)

ByDonatedAtDesc(a, b) == a.donated_at >= b.donated_at

\* Whether row a may precede row b under the ORDER BY clause.
MayPrecede(order, a, b) ==
    CASE order = "created_at" -> ByCreatedAt(a, b)
      [] order = "name" -> ByName(a, b)
      [] order = "donated_at DESC" -> ByDonatedAtDesc(a, b)

\* The listings a SELECT ... ORDER BY may return.
OrderedBy(S, order) ==
    {f \in Listings(S) : \A i, j \in 1..Cardinality(S) : i < j => MayPrecede(order, f[i], f[j])}

\* Foreign key members.membership_level_id / interview_status_id -> lookup tables.
LookupFkOk(table, id) ==
    IF IsNone(id) THEN TRUE ELSE Val(id) \in {r.id : r \in LookupTable(table)}

\* Row locks: another transaction has deleted the member row and not yet finished.
MemberRowDeletedByOther(p, m) == \E q \in Procs \ {p} : m \in txn[q].delM

\* Row locks: another transaction holds a key-share lock on the member row.
MemberRowSharedByOther(p, m) == \E q \in Procs \ {p} : m \in txn[q].share

\* Row locks: another transaction has deleted one of the offering rows.
OfferingRowsDeletedByOther(p, rows) == \E q \in Procs \ {p} : txn[q].delO \cap rows # {}

\* Rows of offerings a statement of p sees: committed ones, but for p's own writes.
VisibleOfferings(p) == (offerings \ txn[p].delO) \cup txn[p].insO

\* ------------------------------------------------------------------ initial state

Init ==
    /\ members = {}
    /\ offerings = {}
    /\ nextMid = 1
    /\ nextOid = 1
    /\ pc = [p \in Procs |-> "idle"]
    /\ req = [p \in Procs |-> NoReq]
    /\ conn = [p \in Procs |-> "none"]
    /\ txn = [p \in Procs |-> NoTxn]
    /\ loc = [p \in Procs |-> NoLoc]
    /\ exc = [p \in Procs |-> NoExc]
    /\ ret = [p \in Procs |-> None]
    /\ resp = [p \in Procs |-> NoResp]
    /\ served = 0

\* ------------------------------------------------------------------ backend/app.py: responses

Ok(status) == [kind |-> "ok", status |-> status, detail |-> ""]

HTTPException(status, detail) == [kind |-> "http_error", status |-> status, detail |-> detail]

\* The exception leaves the endpoint function; the framework answers 500.
Unhandled(e) == [kind |-> "unhandled", status |-> 500, detail |-> e]

\* What each endpoint function makes of its data-access call ending with exception e
\* (NoExc: none) and return value r.

\* GET /members
api_get_members_return(e, r) == IF e # NoExc THEN Unhandled(e) ELSE Ok(200)

\* GET /members/search
api_search_members_return(e, r) == IF e # NoExc THEN Unhandled(e) ELSE Ok(200)

\* GET /members/by-name/{name}
api_get_member_id_return(e, r) ==
    IF e # NoExc THEN Unhandled(e)
    ELSE IF IsNone(r) THEN HTTPException(404, "Member not found")
    ELSE Ok(200)

\* Variant of api_add_member_return without the `except ValueError` clause.
api_add_member_return_no_400(e, r) ==
    IF e = NoExc THEN Ok(201) ELSE HTTPException(500, "Failed to create member")

\* POST /members
api_add_member_return(e, r) ==
    IF e = NoExc THEN Ok(201)
    ELSE IF e = "ValueError" THEN HTTPException(400, "Unknown code")
    ELSE HTTPException(500, "Failed to create member")

\* DELETE /members/{member_id}
api_delete_member_ep_return(e, r) ==
    IF e # NoExc THEN HTTPException(500, "Failed to delete member")
    ELSE IF r = 0 THEN HTTPException(404, "Member not found")
    ELSE Ok(204)

\* POST /offerings
api_add_offering_return(e, r) ==
    IF e # NoExc THEN HTTPException(400, "Failed to add offering") ELSE Ok(201)

\* GET /members/{member_id}/offerings
api_member_offerings_return(e, r) ==
    IF e # NoExc THEN HTTPException(400, "Failed to fetch offerings") ELSE Ok(200)

EndpointReturn(ep, e, r) ==
    CASE ep = "get_members" -> api_get_members_return(e, r)
      [] ep = "search_members" -> api_search_members_return(e, r)
      [] ep = "get_member_id" -> api_get_member_id_return(e, r)
      [] ep = "add_member" -> api_add_member_return(e, r)
      [] ep = "delete_member" -> api_delete_member_ep_return(e, r)
      [] ep = "add_offering" -> api_add_offering_return(e, r)
      [] ep = "member_offerings" -> api_member_offerings_return(e, r)

\* ------------------------------------------------------------------ plumbing

\* The data-access call of p ends with exception e or return value r, leaving its
\* connection in state c, and the endpoint function answers.
Return(p, e, r, c) ==
    /\ exc' = [exc EXCEPT ![p] = e]
    /\ ret' = [ret EXCEPT ![p] = r]
    /\ conn' = [conn EXCEPT ![p] = c]
    /\ resp' = [resp EXCEPT ![p] = EndpointReturn(req[p].ep, e, r)]
    /\ pc' = [pc EXCEPT ![p] = "done"]

\* A worker is free before its first request and after it answered one.
Free(p) == pc[p] \in {"idle", "done"}

\* A request arrives and is given to the first free worker.
Arrives(p) ==
    /\ Free(p)
    /\ \A q \in Before(p) : ~Free(q)
    /\ served < MaxRequests
    /\ served' = served + 1

FirstStatement(ep) ==
    CASE ep = "add_member" -> "resolve"
      [] ep = "delete_member" -> "delete_offerings"
      [] ep = "add_offering" -> "insert_offering"
      [] OTHER -> "select"

\* get_connection(), the first line of every data-access function, outside its try:
\* the connection opens, or the call ends with the error.
get_connection(p, ep) ==
    \/ /\ conn' = [conn EXCEPT ![p] = "open"]
       /\ pc' = [pc EXCEPT ![p] = FirstStatement(ep)]
       /\ exc' = [exc EXCEPT ![p] = NoExc]
       /\ ret' = [ret EXCEPT ![p] = None]
       /\ resp' = [resp EXCEPT ![p] = NoResp]
    \/ /\ conn' = [conn EXCEPT ![p] = "none"]
       /\ pc' = [pc EXCEPT ![p] = "done"]
       /\ exc' = [exc EXCEPT ![p] = "OperationalError"]
       /\ ret' = [ret EXCEPT ![p] = None]
       /\ resp' = [resp EXCEPT ![p] = EndpointReturn(ep, "OperationalError", None)]

\* The endpoint function calls its data-access function.
Call(p, r) ==
    /\ req' = [req EXCEPT ![p] = r]
    /\ loc' = [loc EXCEPT ![p] = NoLoc]
    /\ get_connection(p, r.ep)
    /\ UNCHANGED <<store, txn>>

\* Request validation rejects the request before the endpoint function runs.
Reject(p, r) ==
    /\ req' = [req EXCEPT ![p] = r]
    /\ loc' = [loc EXCEPT ![p] = NoLoc]
    /\ conn' = [conn EXCEPT ![p] = "none"]
    /\ exc' = [exc EXCEPT ![p] = NoExc]
    /\ ret' = [ret EXCEPT ![p] = None]
    /\ resp' = [resp EXCEPT ![p] = HTTPException(422, "validation error")]
    /\ pc' = [pc EXCEPT ![p] = "done"]
    /\ UNCHANGED <<store, txn>>

At(p, at, ep) == pc[p] = at /\ req[p].ep = ep

\* cur.execute raises a store error (connection lost, statement cancelled, ...)
\* inside a try block.
ExecuteFails(p) ==
    /\ exc' = [exc EXCEPT ![p] = "OperationalError"]
    /\ pc' = [pc EXCEPT ![p] = "except"]

\* ------------------------------------------------------------------ backend/app.py: requests

\* GET /members
api_get_members(p) ==
    /\ Arrives(p)
    /\ Call(p, [ep |-> "get_members"])

\* GET /members/search?name=   (name: min_length 1)
api_search_members(p) ==
    /\ Arrives(p)
    /\ \E name \in SearchArgs :
          LET r == [ep |-> "search_members", name |-> name]
          IN  IF Len(name) < 1 THEN Reject(p, r) ELSE Call(p, r)

\* GET /members/by-name/{name}
api_get_member_id(p) ==
    /\ Arrives(p)
    /\ \E name \in NameArgs : Call(p, [ep |-> "get_member_id", name |-> name])

\* POST /members   (name: min_length 1, max_length 100)
api_add_member(p) ==
    /\ Arrives(p)
    /\ \E body \in MemberBodies :
          LET r == [ep |-> "add_member", name |-> body.name,
                    membership_level |-> body.membership_level,
                    interview_status |-> body.interview_status]
          IN  IF Len(body.name) < 1 \/ Len(body.name) > NameMaxLen
              THEN Reject(p, r) ELSE Call(p, r)

\* DELETE /members/{member_id}
api_delete_member_ep(p) ==
    /\ Arrives(p)
    /\ \E m \in MemberIdArgs : Call(p, [ep |-> "delete_member", member_id |-> m])

\* Variant of api_add_offering whose schema has no `ge=0` on amount.
api_add_offering_unvalidated(p) ==
    /\ Arrives(p)
    /\ \E m \in MemberIdArgs, body \in OfferingBodies :
          Call(p, [ep |-> "add_offering", member_id |-> m, amount |-> body.amount,
                   note |-> IF IsNone(body.note) THEN "" ELSE Val(body.note),
                   donated_at |-> body.donated_at])

\* POST /offerings   (amount: ge 0)
api_add_offering(p) ==
    /\ Arrives(p)
    /\ \E m \in MemberIdArgs, body \in OfferingBodies :
          LET r == [ep |-> "add_offering", member_id |-> m, amount |-> body.amount,
                    note |-> IF IsNone(body.note) THEN "" ELSE Val(body.note),
                    donated_at |-> body.donated_at]
          IN  IF ~(body.amount >= 0) THEN Reject(p, r) ELSE Call(p, r)

\* GET /members/{member_id}/offerings
api_member_offerings(p) ==
    /\ Arrives(p)
    /\ \E m \in MemberIdArgs : Call(p, [ep |-> "member_offerings", member_id |-> m])

\* ------------------------------------------------------------------ backend/db.py

\* The three functions below run outside any try block: when cur.execute raises,
\* the lines that close the cursor and the connection are not reached.

get_all_members(p) ==
    /\ At(p, "select", "get_members")
    /\ \/ \E rows \in OrderedBy(members, "created_at") :
             Return(p, NoExc, [i \in 1..Len(rows) |-> _member_row_to_dict(rows[i])], "closed")
       \/ Return(p, "OperationalError", None, "open")
    /\ UNCHANGED <<store, req, txn, loc, served>>

search_members_by_name(p) ==
    /\ At(p, "select", "search_members")
    /\ \/ \E rows \in OrderedBy({m \in members : ILike(m.name, req[p].name)}, "name") :
             Return(p, NoExc, [i \in 1..Len(rows) |-> _member_row_to_dict(rows[i])], "closed")
       \/ Return(p, "OperationalError", None, "open")
    /\ UNCHANGED <<store, req, txn, loc, served>>

get_member_id_by_name(p) ==
    /\ At(p, "select", "get_member_id")
    /\ \/ LET rows == {m \in members : m.name = req[p].name}
          IN  IF rows = {} THEN Return(p, NoExc, None, "closed")
              ELSE \E row \in rows : Return(p, NoExc, Some(row.id), "closed")
       \/ Return(p, "OperationalError", None, "open")
    /\ UNCHANGED <<store, req, txn, loc, served>>

\* create_member, lines 122-123: both lookups; the second is not reached when the
\* first raises.
create_member_resolve(p) ==
    /\ At(p, "resolve", "add_member")
    /\ LET level == _resolve_lookup_id("membership_levels", req[p].membership_level)
           status == _resolve_lookup_id("interview_statuses", req[p].interview_status)
       IN  \/ /\ level.exc # NoExc
              /\ exc' = [exc EXCEPT ![p] = level.exc]
              /\ pc' = [pc EXCEPT ![p] = "except"]
              /\ UNCHANGED loc
           \/ /\ level.exc = NoExc /\ status.exc # NoExc
              /\ exc' = [exc EXCEPT ![p] = status.exc]
              /\ pc' = [pc EXCEPT ![p] = "except"]
              /\ UNCHANGED loc
           \/ /\ level.exc = NoExc /\ status.exc = NoExc
              /\ loc' = [loc EXCEPT ![p].level_id = level.id, ![p].status_id = status.id]
              /\ pc' = [pc EXCEPT ![p] = "insert_member"]
              /\ UNCHANGED exc
           \/ /\ IF LookupQueries(req[p].membership_level) THEN TRUE
                 ELSE level.exc = NoExc /\ LookupQueries(req[p].interview_status)
              /\ ExecuteFails(p)
              /\ UNCHANGED loc
    /\ UNCHANGED <<store, req, conn, txn, ret, resp, served>>

\* create_member, lines 125-144: the INSERT and its RETURNING row.
create_member_insert(p) ==
    /\ At(p, "insert_member", "add_member")
    /\ \/ /\ LookupFkOk("membership_levels", loc[p].level_id)
          /\ LookupFkOk("interview_statuses", loc[p].status_id)
          /\ LET row == [id |-> nextMid, name |-> req[p].name,
                         membership_level_id |-> loc[p].level_id,
                         interview_status_id |-> loc[p].status_id]
             IN  /\ txn' = [txn EXCEPT ![p].insM = @ \cup {row}]
                 /\ ret' = [ret EXCEPT ![p] = [id |-> row.id, name |-> row.name]]
          /\ nextMid' = nextMid + 1
          /\ pc' = [pc EXCEPT ![p] = "commit"]
          /\ UNCHANGED exc
       \/ /\ ~(LookupFkOk("membership_levels", loc[p].level_id)
               /\ LookupFkOk("interview_statuses", loc[p].status_id))
          /\ exc' = [exc EXCEPT ![p] = "IntegrityError"]
          /\ pc' = [pc EXCEPT ![p] = "except"]
          /\ UNCHANGED <<txn, ret, nextMid>>
       \/ /\ ExecuteFails(p)
          /\ UNCHANGED <<txn, ret, nextMid>>
    /\ UNCHANGED <<members, offerings, nextOid, req, conn, loc, resp, served>>

\* Variant of the offering delete on an autocommit connection: the rows leave the
\* table with the statement.
delete_member_offerings_autocommit(p) ==
    /\ At(p, "delete_offerings", "delete_member")
    /\ LET rows == {o \in VisibleOfferings(p) : o.member_id = req[p].member_id}
       IN  \/ /\ ~OfferingRowsDeletedByOther(p, rows)
              /\ offerings' = offerings \ rows
              /\ pc' = [pc EXCEPT ![p] = "delete_member"]
              /\ UNCHANGED exc
           \/ /\ ExecuteFails(p)
              /\ UNCHANGED offerings
    /\ UNCHANGED <<members, nextMid, nextOid, txn, req, conn, loc, ret, resp, served>>

\* Variant of the offering delete without its WHERE clause.
delete_member_offerings_all(p) ==
    /\ At(p, "delete_offerings", "delete_member")
    /\ LET rows == VisibleOfferings(p)
       IN  \/ /\ ~OfferingRowsDeletedByOther(p, rows)
              /\ txn' = [txn EXCEPT ![p].delO = @ \cup rows]
              /\ pc' = [pc EXCEPT ![p] = "delete_member"]
              /\ UNCHANGED exc
           \/ /\ ExecuteFails(p)
              /\ UNCHANGED txn
    /\ UNCHANGED <<store, req, conn, loc, ret, resp, served>>

\* delete_member, line 164: DELETE FROM offerings WHERE member_id = %s.  The statement
\* waits while another transaction holds one of the rows deleted.
delete_member_offerings(p) ==
    /\ At(p, "delete_offerings", "delete_member")
    /\ LET rows == {o \in VisibleOfferings(p) : o.member_id = req[p].member_id}
       IN  \/ /\ ~OfferingRowsDeletedByOther(p, rows)
              /\ txn' = [txn EXCEPT ![p].delO = @ \cup rows]
              /\ pc' = [pc EXCEPT ![p] = "delete_member"]
              /\ UNCHANGED exc
           \/ /\ ExecuteFails(p)
              /\ UNCHANGED txn
    /\ UNCHANGED <<store, req, conn, loc, ret, resp, served>>

\* Variant of the member-row delete that reads cur.rowcount too early: it returns
\* the row count of the offering delete.
delete_member_row_early_rowcount(p) ==
    /\ At(p, "delete_member", "delete_member")
    /\ LET m == req[p].member_id
           n == Some(Cardinality(txn[p].delO))
       IN  \/ /\ m \notin MemberIdsOf(members)
              /\ loc' = [loc EXCEPT ![p].deleted = n]
              /\ pc' = [pc EXCEPT ![p] = "commit"]
              /\ UNCHANGED <<txn, exc>>
           \/ /\ m \in MemberIdsOf(members)
              /\ ~MemberRowDeletedByOther(p, m)
              /\ ~MemberRowSharedByOther(p, m)
              /\ IF \E o \in VisibleOfferings(p) : o.member_id = m
                 THEN /\ exc' = [exc EXCEPT ![p] = "IntegrityError"]
                      /\ pc' = [pc EXCEPT ![p] = "except"]
                      /\ txn' = [txn EXCEPT ![p].share = @ \cup {m}]
                      /\ UNCHANGED loc
                 ELSE /\ txn' = [txn EXCEPT ![p].delM = @ \cup {m}]
                      /\ loc' = [loc EXCEPT ![p].deleted = n]
                      /\ pc' = [pc EXCEPT ![p] = "commit"]
                      /\ UNCHANGED exc
           \/ /\ ExecuteFails(p)
              /\ UNCHANGED <<txn, loc>>
    /\ UNCHANGED <<store, req, conn, ret, resp, served>>

\* delete_member, lines 165-166: DELETE FROM members WHERE id = %s, and its rowcount.
\* The statement waits while another transaction has deleted the row or holds a
\* key-share lock on it; the foreign key of offerings (no cascade) rejects the delete
\* while an offering still references the row, and the row stays locked until the
\* rollback.
delete_member_row(p) ==
    /\ At(p, "delete_member", "delete_member")
    /\ LET m == req[p].member_id
       IN  \/ /\ m \notin MemberIdsOf(members)
              /\ loc' = [loc EXCEPT ![p].deleted = Some(0)]
              /\ pc' = [pc EXCEPT ![p] = "commit"]
              /\ UNCHANGED <<txn, exc>>
           \/ /\ m \in MemberIdsOf(members)
              /\ ~MemberRowDeletedByOther(p, m)
              /\ ~MemberRowSharedByOther(p, m)
              /\ IF \E o \in VisibleOfferings(p) : o.member_id = m
                 THEN /\ exc' = [exc EXCEPT ![p] = "IntegrityError"]
                      /\ pc' = [pc EXCEPT ![p] = "except"]
                      /\ txn' = [txn EXCEPT ![p].share = @ \cup {m}]
                      /\ UNCHANGED loc
                 ELSE /\ txn' = [txn EXCEPT ![p].delM = @ \cup {m}]
                      /\ loc' = [loc EXCEPT ![p].deleted = Some(1)]
                      /\ pc' = [pc EXCEPT ![p] = "commit"]
                      /\ UNCHANGED exc
           \/ /\ ExecuteFails(p)
              /\ UNCHANGED <<txn, loc>>
    /\ UNCHANGED <<store, req, conn, ret, resp, served>>

\* add_offering, lines 188-206: the INSERT and its RETURNING row.  The foreign-key
\* check waits while another transaction has deleted the member row, and takes a
\* key-share lock on it.
add_offering(p) ==
    /\ At(p, "insert_offering", "add_offering")
    /\ LET m == req[p].member_id
           row == [id |-> nextOid, member_id |-> m, amount |-> Some(req[p].amount),
                   currency |-> DefaultCurrency,
                   donated_at |-> IF IsNone(req[p].donated_at) THEN Now
                                  ELSE Val(req[p].donated_at),
                   note |-> req[p].note]
       IN  \/ /\ ~MemberRowDeletedByOther(p, m)
              /\ m \in MemberIdsOf(members)
              /\ txn' = [txn EXCEPT ![p].insO = @ \cup {row}, ![p].share = @ \cup {m}]
              /\ ret' = [ret EXCEPT ![p] = _offering_row_to_dict(row)]
              /\ nextOid' = nextOid + 1
              /\ pc' = [pc EXCEPT ![p] = "commit"]
              /\ UNCHANGED exc
           \/ /\ ~MemberRowDeletedByOther(p, m)
              /\ m \notin MemberIdsOf(members)
              /\ exc' = [exc EXCEPT ![p] = "IntegrityError"]
              /\ nextOid' = nextOid + 1
              /\ pc' = [pc EXCEPT ![p] = "except"]
              /\ UNCHANGED <<txn, ret>>
           \/ /\ ExecuteFails(p)
              /\ UNCHANGED <<txn, ret, nextOid>>
    /\ UNCHANGED <<members, offerings, nextMid, req, conn, loc, resp, served>>

\* conn.commit(), the return, and the finally block of create_member, delete_member
\* and add_offering.
commit(p) ==
    /\ pc[p] = "commit"
    /\ members' = {m \in members : m.id \notin txn[p].delM} \cup txn[p].insM
    /\ offerings' = (offerings \ txn[p].delO) \cup txn[p].insO
    /\ txn' = [txn EXCEPT ![p] = NoTxn]
    /\ Return(p, NoExc, IF req[p].ep = "delete_member" THEN Val(loc[p].deleted) ELSE ret[p],
              "closed")
    /\ UNCHANGED <<nextMid, nextOid, req, loc, served>>

\* Variant of the except block that rolls back and runs the statements again when
\* the store rejected one on a constraint.
except_rollback_retry(p) ==
    /\ pc[p] = "except"
    /\ txn' = [txn EXCEPT ![p] = NoTxn]
    /\ IF exc[p] = "IntegrityError"
       THEN /\ pc' = [pc EXCEPT ![p] = FirstStatement(req[p].ep)]
            /\ exc' = [exc EXCEPT ![p] = NoExc]
            /\ UNCHANGED <<conn, ret, resp>>
       ELSE Return(p, exc[p], None, "closed")
    /\ UNCHANGED <<store, req, loc, served>>

\* except Exception: conn.rollback(); raise, and the finally block.
except_rollback(p) ==
    /\ pc[p] = "except"
    /\ txn' = [txn EXCEPT ![p] = NoTxn]
    /\ Return(p, exc[p], None, "closed")
    /\ UNCHANGED <<store, req, loc, served>>

\* round(x, 2) on thousandths: to the nearest hundredth, ties to the even one (the
\* representation error of binary floats is not modelled).
Round2(x) ==
    LET q == x \div 10
        r == x % 10
    IN  IF r < 5 THEN 10 * q
        ELSE IF r > 5 THEN 10 * (q + 1)
        ELSE IF q % 2 = 0 THEN 10 * q ELSE 10 * (q + 1)

\* o["amount"] or 0
AmountOrZero(o) == IF IsNone(o.amount) THEN 0 ELSE Val(o.amount)

RECURSIVE SumAmounts(_)
SumAmounts(log) == IF log = <<>> THEN 0 ELSE AmountOrZero(Head(log)) + SumAmounts(Tail(log))

\* Variant of OfferingsResult without round(_, 2).
OfferingsResult_unrounded(member_id, rows) ==
    LET log == [i \in 1..Len(rows) |-> _offering_row_to_dict(rows[i])]
    IN  [member_id |-> member_id, total |-> SumAmounts(log), log |-> log]

\* The value get_offerings_for_member builds from the rows fetched.
OfferingsResult(member_id, rows) ==
    LET log == [i \in 1..Len(rows) |-> _offering_row_to_dict(rows[i])]
    IN  [member_id |-> member_id, total |-> Round2(SumAmounts(log)), log |-> log]

\* get_offerings_for_member: try / finally, no except.
get_offerings_for_member(p) ==
    /\ At(p, "select", "member_offerings")
    /\ \/ \E rows \in OrderedBy({o \in offerings : o.member_id = req[p].member_id},
                                "donated_at DESC") :
             Return(p, NoExc, OfferingsResult(req[p].member_id, rows), "closed")
       \/ Return(p, "OperationalError", None, "closed")
    /\ UNCHANGED <<store, req, txn, loc, served>>

\* ------------------------------------------------------------------ specification

Next ==
    \E p \in Procs :
        \/ api_get_members(p)
        \/ api_search_members(p)
        \/ api_get_member_id(p)
        \/ api_add_member(p)
        \/ api_delete_member_ep(p)
        \/ api_add_offering(p)
        \/ api_member_offerings(p)
        \/ get_all_members(p)
        \/ search_members_by_name(p)
        \/ get_member_id_by_name(p)
        \/ create_member_resolve(p)
        \/ create_member_insert(p)
        \/ delete_member_offerings(p)
        \/ delete_member_row(p)
        \/ add_offering(p)
        \/ get_offerings_for_member(p)
        \/ commit(p)
        \/ except_rollback(p)

Spec == Init /\ [][Next]_vars

\* ------------------------------------------------------------------ properties

OfferingsOf(m, os) == {o \in os : o.member_id = m}

\* The data-access call of p ends in this step.
Ends(p, ep) == req[p].ep = ep /\ pc[p] \notin {"idle", "done"} /\ pc'[p] = "done"

\* The data-access call of p ends in this step by committing.
Commits(p, ep) == req[p].ep = ep /\ pc[p] = "commit" /\ pc'[p] = "done"

\* What the commit of a delete_member(id) leaves and returns.
C1_DeleteStep ==
    \A p \in Procs :
        Commits(p, "delete_member") =>
            LET m == req[p].member_id
            IN  /\ exc'[p] = NoExc
                /\ m \notin MemberIdsOf(members')
                /\ OfferingsOf(m, offerings') = {}
                /\ ret'[p] = (IF m \in MemberIdsOf(members) THEN 1 ELSE 0)
                /\ m \notin MemberIdsOf(members) =>
                      members' = members /\ offerings' = offerings

\* A delete_member fails on a constraint only where the member row exists.
C1_FailureStep ==
    \A p \in Procs :
        (req[p].ep = "delete_member" /\ exc'[p] = "IntegrityError" /\ exc[p] = NoExc) =>
            req[p].member_id \in MemberIdsOf(members)

\* C1: a delete_member(id) that returns has committed a state with no member row id
\* and no offering of id, and returns 1 when the row existed and 0 when it did not
\* (a repeated call, an id never handed out), in which case it changes nothing; on
\* an id without a member row it never fails on a constraint.
C1_DeleteMember == [][C1_DeleteStep /\ C1_FailureStep]_vars

\* A delete_member of a member owning an offering has returned 1.
C1_Witness ==
    \E p, q \in Procs :
        /\ pc[p] = "done" /\ req[p].ep = "delete_member" /\ exc[p] = NoExc /\ ret[p] = 1
        /\ pc[q] = "done" /\ req[q].ep = "add_offering" /\ exc[q] = NoExc
        /\ req[q].member_id = req[p].member_id
        /\ offerings = {} /\ members = {}

\* A lookup value that is a code string absent from its table.
CodeAbsent(table, value) ==
    IF IsNone(value) THEN FALSE
    ELSE value[1] = "str" /\ value[2] \notin {r.code : r \in LookupTable(table)}

UnknownCode(r) ==
    \/ CodeAbsent("membership_levels", r.membership_level)
    \/ CodeAbsent("interview_statuses", r.interview_status)

\* A step of a create_member call given an unknown code.
C2_Step ==
    \A p \in Procs :
        (req'[p].ep = "add_member" /\ UnknownCode(req'[p]) /\ pc'[p] # pc[p]) =>
            /\ members' = members
            /\ txn'[p].insM = {}
            /\ pc'[p] = "done" =>
                  \/ resp'[p].status = 422
                  \/ exc'[p] \in {"ValueError", "OperationalError"} /\ IsNone(ret'[p])

\* C2: no step of a create_member call given an unknown code changes the members
\* table or writes a member row in its transaction, and the call ends with ValueError
\* (or with the store error that kept it from reaching the lookup).
C2_UnknownCodeRollsBack == [][C2_Step]_vars

\* create_member resolved its first lookup value, found the second unknown and
\* raised ValueError, with a member row in the table.
C2_Witness ==
    \E p \in Procs :
        /\ pc[p] = "done" /\ req[p].ep = "add_member" /\ exc[p] = "ValueError"
        /\ ~CodeAbsent("membership_levels", req[p].membership_level)
        /\ CodeAbsent("interview_statuses", req[p].interview_status)
        /\ members # {}

NoOrphans == \A o \in offerings : o.member_id \in MemberIdsOf(members)

\* A failed data-access call rolls back and ends with its exception: no statement is
\* executed again, and the store is what it was.
NotRetried ==
    \A p \in Procs :
        (pc[p] = "except" /\ pc'[p] # "except") =>
            /\ pc'[p] = "done" /\ exc'[p] = exc[p]
            /\ store' = store
            /\ served' = served

\* C3: in every committed state every offering references an existing member row,
\* under every interleaving of the requests; a request failing on the constraint is
\* rolled back and answered, not retried.
C3_NoOrphanOfferings == []NoOrphans /\ [][NotRetried]_vars

\* delete_member lost a race against an add_offering for the same member: the
\* offering is committed, the delete failed on the foreign key.
C3_Witness ==
    \E p, q \in Procs :
        /\ pc[p] = "done" /\ req[p].ep = "delete_member" /\ exc[p] = "IntegrityError"
        /\ pc[q] = "done" /\ req[q].ep = "add_offering" /\ exc[q] = NoExc
        /\ req[q].member_id = req[p].member_id
        /\ OfferingsOf(req[p].member_id, offerings) # {}

\* C7: every offering row, committed or written in a transaction, has amount >= 0,
\* and a POST /offerings with a negative amount is answered 422 without a
\* data-access call.
C7_AmountNonNegative ==
    /\ \A o \in offerings : Val(o.amount) >= 0
    /\ \A p \in Procs :
          /\ \A o \in txn[p].insO : Val(o.amount) >= 0
          /\ (req[p].ep = "add_offering" /\ req[p].amount < 0) =>
                /\ pc[p] = "done" /\ resp[p].status = 422
                /\ conn[p] = "none" /\ txn[p] = NoTxn

\* A POST /offerings with a negative amount was rejected while an offering exists.
C7_Witness ==
    \E p \in Procs :
        /\ pc[p] = "done" /\ req[p].ep = "add_offering" /\ req[p].amount < 0
        /\ offerings # {}

\* In the transaction of delete_member the member row is deleted after the offerings.
C8_Order ==
    \A p \in Procs :
        \A m \in txn[p].delM : OfferingsOf(m, VisibleOfferings(p)) = {}

\* No step removes a committed offering of a member and leaves the member row.
C8_Atomic ==
    \A o \in offerings : o \notin offerings' => o.member_id \notin MemberIdsOf(members')

\* C8: delete_member deletes the offerings of id before the member row, and no
\* committed state has offerings of id removed while the member row of id remains.
C8_DeleteAtomic == []C8_Order /\ [][C8_Atomic]_vars

\* The member-row delete has failed after the offering delete took rows.
C8_Witness ==
    \E p \in Procs :
        /\ pc[p] = "except" /\ req[p].ep = "delete_member"
        /\ txn[p].delO # {}
        /\ txn[p].delO \subseteq offerings

\* Every committed offering is kept as it is, or its member's delete commits.
C10_Step ==
    \A o \in offerings :
        \/ /\ o \in offerings'
           /\ \A o2 \in offerings' : o2.id = o.id => o2 = o
        \/ \E p \in Procs :
              /\ Commits(p, "delete_member")
              /\ req[p].member_id = o.member_id
              /\ ret'[p] = 1

\* C10: a committed offering stays in the table with all its fields unchanged, but
\* in the step that commits a delete_member of its own member.
C10_OfferingLifecycle == [][C10_Step]_vars

\* An offering is still in the table after a delete_member of another id committed.
C10_Witness ==
    \E p \in Procs :
        /\ pc[p] = "done" /\ req[p].ep = "delete_member" /\ exc[p] = NoExc
        /\ \E o \in offerings : o.member_id # req[p].member_id

\* ------------------------------------------------------------------ API layer properties

StoreExceptions == {"OperationalError", "IntegrityError"}

Answered(p) == pc[p] = "done" /\ resp[p].status # 422

\* The data-access call of p had a not-found outcome.
NotFoundOutcome(p) ==
    /\ exc[p] = NoExc
    /\ \/ req[p].ep = "get_member_id" /\ IsNone(ret[p])
       \/ req[p].ep = "delete_member" /\ ret[p] = 0

\* C4 as stated: on every endpoint UnknownCode yields 400, a not-found outcome 404 and
\* any other failure 500.
C4_AsStated ==
    \A p \in Procs :
        Answered(p) =>
            /\ exc[p] = "ValueError" => resp[p].status = 400
            /\ NotFoundOutcome(p) => resp[p].status = 404
            /\ exc[p] \in StoreExceptions => resp[p].status = 500

\* The endpoints that answer every failure of their data-access call with 400.
AnswersFailureWith400 == {"add_offering", "member_offerings"}

\* C4 amended: UnknownCode yields 400 and a not-found outcome 404; any other failure
\* yields 400 on POST /offerings and GET /members/{id}/offerings, and 500 on every
\* other endpoint; no failure is answered with a success status.
C4_ErrorTranslation ==
    \A p \in Procs :
        Answered(p) =>
            /\ exc[p] = "ValueError" => resp[p].status = 400
            /\ NotFoundOutcome(p) => resp[p].status = 404
            /\ exc[p] \in StoreExceptions =>
                  resp[p].status = (IF req[p].ep \in AnswersFailureWith400 THEN 400 ELSE 500)
            /\ (exc[p] = NoExc /\ ~NotFoundOutcome(p)) <=> resp[p].kind = "ok"

\* POST /offerings failed on the foreign key and was answered 400, and POST /members
\* failed on a foreign key and was answered 500.
C4_Witness ==
    \E p, q \in Procs :
        /\ pc[p] = "done" /\ req[p].ep = "add_offering" /\ exc[p] = "IntegrityError"
        /\ resp[p].status = 400
        /\ pc[q] = "done" /\ req[q].ep = "add_member" /\ exc[q] = "IntegrityError"
        /\ resp[q].status = 500

\* C5 as stated: on every endpoint a store failure of the data-access call is caught
\* in the endpoint function and replaced by an HTTP error.
C5_AsStated ==
    \A p \in Procs :
        (pc[p] = "done" /\ exc[p] \in StoreExceptions) => resp[p].kind = "http_error"

\* C9 as stated: once a data-access call has returned or raised, the connection it
\* opened is not open.
C9_AsStated == \A p \in Procs : pc[p] = "done" => conn[p] # "open"

\* ------------------------------------------------------------------ get_offerings_for_member on given tables

\* Offering rows in the table at the start: rows 1..n, n <= MaxLogRows.
MaxLogRows == 2

LogMember(id) ==
    [id |-> id, name |-> <<"A", "l">>, membership_level_id |-> None,
     interview_status_id |-> None]

\* (member_id, amount, donated_at) of a row; amount may be NULL.
LogShapes == {1, 2} \X {None, Some(5), Some(2505)} \X {1, 2}

InitLog ==
    /\ members = {LogMember(1), LogMember(2)}
    /\ nextMid = 4
    /\ \E n \in 0..MaxLogRows :
          \E f \in [1..n -> LogShapes] :
             /\ offerings = {[id |-> i, member_id |-> f[i][1], amount |-> f[i][2],
                              currency |-> DefaultCurrency, donated_at |-> f[i][3],
                              note |-> ""] : i \in 1..n}
             /\ nextOid = n + 1
    /\ pc = [p \in Procs |-> "idle"]
    /\ req = [p \in Procs |-> NoReq]
    /\ conn = [p \in Procs |-> "none"]
    /\ txn = [p \in Procs |-> NoTxn]
    /\ loc = [p \in Procs |-> NoLoc]
    /\ exc = [p \in Procs |-> NoExc]
    /\ ret = [p \in Procs |-> None]
    /\ resp = [p \in Procs |-> NoResp]
    /\ served = 0

NextLog == api_member_offerings("r1") \/ get_offerings_for_member("r1")

SpecLog == InitLog /\ [][NextLog]_vars

RECURSIVE SumOfRows(_)
SumOfRows(rows) ==
    IF rows = {} THEN 0
    ELSE LET o == CHOOSE x \in rows : TRUE
         IN  (IF o.amount = None THEN 0 ELSE o.amount[1]) + SumOfRows(rows \ {o})

LogEntryOf(o) ==
    [id |-> o.id, amount |-> o.amount, currency |-> o.currency,
     donated_at |-> o.donated_at, note |-> o.note]

\* C6: get_offerings_for_member(m) returns a log holding exactly the offerings of m,
\* each once, latest donated_at first, and the rounded sum of their amounts with NULL
\* as 0; for an m without offerings, a member or not, the log is empty and total 0.
C6_OfferingsLog ==
    \A p \in Procs :
        (pc[p] = "done" /\ req[p].ep = "member_offerings" /\ exc[p] = NoExc) =>
            LET rows == OfferingsOf(req[p].member_id, offerings)
                log == ret[p].log
            IN  /\ Len(log) = Cardinality(rows)
                /\ {log[i] : i \in 1..Len(log)} = {LogEntryOf(o) : o \in rows}
                /\ \A i, j \in 1..Len(log) : i < j => log[i].donated_at >= log[j].donated_at
                /\ ret[p].total = Round2(SumOfRows(rows))
                /\ rows = {} => log = <<>> /\ ret[p].total = 0
                /\ resp[p].status = 200

\* A log of two offerings, one with a NULL amount, the sum being rounded.
C6_Witness ==
    \E p \in Procs :
        /\ pc[p] = "done" /\ req[p].ep = "member_offerings" /\ exc[p] = NoExc
        /\ Len(ret[p].log) = 2
        /\ \E i \in 1..2 : ret[p].log[i].amount = None
        /\ ret[p].total = 2500

====
